---- MODULE Spec2Model ----
(***************************************************************************)
(* State-machine model of the AI Real Estate Co-Pilot API server           *)
(* (src/src/main.py) together with the agent pipeline it drives            *)
(* (src/src/agent.py, src/src/tools.py, src/src/prompts.py).               *)
(*                                                                         *)
(* The three endpoints are `async def` handlers that call the blocking     *)
(* supervisor_agent.invoke without awaiting, and the server is started     *)
(* with a single uvicorn worker (main.py:459-461): a handler owns the      *)
(* event loop until it returns.  The variable `busy` is the position of    *)
(* the handler that currently runs the pipeline; no other handler starts   *)
(* while it is set.                                                        *)
(*                                                                         *)
(* Strings that the code inspects character by character (user ids and     *)
(* thread ids) are sequences of one-character strings.                     *)
(***************************************************************************)
EXTENDS Naturals, Integers, Sequences, FiniteSets, TLC

VARIABLES disk, values, tasks, busy, response, resumed, clock, nextId, seen

vars == <<disk, values, tasks, busy, response, resumed, clock, nextId, seen>>

(***************************************************************************)
(* Bounds of the model.                                                    *)
(***************************************************************************)
\* messages kept in one thread's transcript
MaxMsgs == 2
\* review interrupts raised over one behaviour
MaxRounds == 2
\* report compilations over one behaviour (values of generated_at)
MaxClock == 2
\* dispatches of the search worker recorded in one thread's transcript
MaxDispatch == 4

(***************************************************************************)
(* Users, threads, properties.                                             *)
(***************************************************************************)
\* the "sub" claim of the Clerk token is an arbitrary string for the code
UserIds == { <<"u">>, <<"u", "-", "v">> }

Timestamps == {1}

Digits == <<"0", "1", "2", "3", "4", "5", "6", "7", "8", "9">>

RECURSIVE IntStr(_)
\* str(n) of a natural number, as the f-string of invoke_agent formats it
IntStr(n) ==
    IF n < 10 THEN <<Digits[n + 1]>>
    ELSE IntStr(n \div 10) \o <<Digits[(n % 10) + 1]>>

\* thread_id = f"{user_id}-{request.timestamp}"
ThreadIdOf(user_id, timestamp) == user_id \o <<"-">> \o IntStr(timestamp)

ThreadIds == { ThreadIdOf(u, ts) : u \in UserIds, ts \in Timestamps }

NoThread == <<>>

\* str.startswith
StartsWith(s, prefix) ==
    /\ Len(prefix) <= Len(s)
    /\ SubSeq(s, 1, Len(prefix)) = prefix

\* validate_thread_ownership: TRUE when the call returns, FALSE when it raises 403
validate_thread_ownership(thread_id, user_id) ==
    StartsWith(thread_id, user_id \o <<"-">>)

\* the user whose invoke call creates the thread
CreatorOf(thread_id) ==
    CHOOSE u \in UserIds : \E ts \in Timestamps : ThreadIdOf(u, ts) = thread_id

PropIds == {"p1", "p2", "p3"}

\* the *.json files of one directory in the order glob yields them
Stems == <<"p1", "p2", "p3">>

NoId == "none"

(***************************************************************************)
(* Artifact files.  st is "absent", "ok" (json.load succeeds) or "bad"     *)
(* (json.load raises); id and property_id are the payload's fields, NoId   *)
(* when the key is missing; path is external_disk_path; by is the thread   *)
(* whose worker wrote the file (history, never read by the code).          *)
(***************************************************************************)
AbsentFile == [st |-> "absent", id |-> NoId, property_id |-> NoId, path |-> "", by |-> NoThread]

OkFile(id, property_id, path, by) ==
    [st |-> "ok", id |-> id, property_id |-> property_id, path |-> path, by |-> by]

BadFile(by) == [st |-> "bad", id |-> NoId, property_id |-> NoId, path |-> "", by |-> by]

EmptyDir == [s \in PropIds |-> AbsentFile]

\* bound: src.agent has the attribute AGENT_DATA_DIR that main.py:162 imports;
\* listable: the directories of AGENT_DATA_DIR can be listed (exists / glob do not raise)
EmptyDisk ==
    [properties |-> EmptyDir, locations |-> EmptyDir, decorations |-> EmptyDir,
     bound |-> TRUE, listable |-> TRUE]

\* decorated_images/*_halloween.json: no code of the repository writes there
decorated_dir == {}

(***************************************************************************)
(* Messages of a thread's transcript.                                      *)
(*   name    : tool name of a tool message ("" otherwise)                  *)
(*   json    : the content parses (json.loads / extract_json_from_text)    *)
(*   status  : the "status" key of the parsed content                      *)
(*   summary, search_criteria : keys of the parsed content ("" if absent)  *)
(*   properties : the "properties" list of the parsed content              *)
(*   property_id, pois : "property_id" key and presence of "nearby_pois"   *)
(*   report  : the "report" key of the parsed content, <<>> when absent    *)
(***************************************************************************)
Msg(name, json, status, summary, criteria, properties, property_id, pois) ==
    [name |-> name, json |-> json, status |-> status, summary |-> summary,
     search_criteria |-> criteria, properties |-> properties,
     property_id |-> property_id, pois |-> pois, report |-> <<>>]

UserMsg == Msg("", FALSE, "", "", "", <<>>, NoId, FALSE)

\* tools.py:410-470: the tool message of a successful submission.  The returned
\* dict has the keys status, message, report and markdown_report; the submitted
\* summary and search criteria are inside "report", not at the top level.
submit_final_report_tool(report) ==
    [Msg("submit_final_report_tool", TRUE, "success", "", "", <<>>, NoId, FALSE)
        EXCEPT !.report = <<report>>]

NoValues == [exists |-> FALSE, messages |-> <<>>, todos |-> <<>>]

(***************************************************************************)
(* Report compiler (main.py:57-247).                                       *)
(***************************************************************************)
\* a Python dict as a function whose domain is the set of keys present
EmptyDict == [k \in {} |-> AbsentFile]

DictPut(d, k, v) == [x \in (DOMAIN d) \cup {k} |-> IF x = k THEN v ELSE d[x]]

\* file_path.stem of /decorations/{property_id}_decorated.json
DecoratedStem(s) ==
    CASE s = "p1" -> "p1_decorated"
      [] s = "p2" -> "p2_decorated"
      [] OTHER    -> "p3_decorated"

\* ReadProperties stopping after the first file that json.load accepts
ReadFirstProperty(dir) ==
    LET all == SelectSeq([i \in 1..Len(Stems) |-> dir[Stems[i]]], LAMBDA f : f.st = "ok")
    IN  IF all = <<>> THEN <<>> ELSE <<all[1]>>

\* main.py:175-182: every file of properties/ that json.load accepts, in glob order
ReadProperties(dir) ==
    SelectSeq([i \in 1..Len(Stems) |-> dir[Stems[i]]], LAMBDA f : f.st = "ok")

\* main.py:190: data.get("property_id") or data.get("id") or stem without "_location"
LocationKey(f, s) ==
    IF f.property_id # NoId THEN f.property_id
    ELSE IF f.id # NoId THEN f.id
    ELSE s

\* main.py:202: data.get("property_id") or data.get("id") or file_path.stem
DecorationKey(f, s) ==
    IF f.property_id # NoId THEN f.property_id
    ELSE IF f.id # NoId THEN f.id
    ELSE DecoratedStem(s)

RECURSIVE ReadLocations(_, _, _)
\* main.py:186-194: later files overwrite earlier ones under the same key
ReadLocations(dir, i, acc) ==
    IF i > Len(Stems) THEN acc
    ELSE LET f == dir[Stems[i]] IN
         ReadLocations(dir, i + 1,
            IF f.st = "ok" THEN DictPut(acc, LocationKey(f, Stems[i]), f) ELSE acc)

RECURSIVE ReadDecorations(_, _, _)
\* main.py:198-207: decorated_images[prop_id] = external_disk_path
ReadDecorations(dir, i, acc) ==
    IF i > Len(Stems) THEN acc
    ELSE LET f == dir[Stems[i]] IN
         ReadDecorations(dir, i + 1,
            IF f.st = "ok" THEN DictPut(acc, DecorationKey(f, Stems[i]), f) ELSE acc)

RECURSIVE MsgProperties(_, _)
\* main.py:128-134: properties with an id from every search-result message
MsgProperties(messages, i) ==
    IF i > Len(messages) THEN <<>>
    ELSE LET m == messages[i] IN
         (IF m.json /\ m.status # ""
             THEN SelectSeq(m.properties, LAMBDA p : p.id # NoId)
             ELSE <<>>) \o MsgProperties(messages, i + 1)

RECURSIVE MsgLocations(_, _, _)
\* main.py:137-142: location analyses keyed by the message's property_id
MsgLocations(messages, i, acc) ==
    IF i > Len(messages) THEN acc
    ELSE LET m == messages[i] IN
         MsgLocations(messages, i + 1,
            IF m.json /\ m.pois /\ m.property_id # NoId
               THEN DictPut(acc, m.property_id, OkFile(NoId, m.property_id, "", NoThread))
               ELSE acc)

\* main.py:116-157
extract_data_from_messages(messages) ==
    [properties |-> MsgProperties(messages, 1),
     location_analyses |-> MsgLocations(messages, 1, EmptyDict),
     decorated_images |-> [k \in decorated_dir |-> AbsentFile]]

NoToolResponse == <<>>

DefaultCriteria == "Unknown"

\* f"Found {len(properties)} properties with location analysis and Halloween decorations."
FoundSummary(n) == <<"Found", n>>

\* build_report_from_filesystem with the generation time leaking into the summary
build_report_stamped(d, vals, tool_response, now) ==
    LET diskProps == ReadProperties(d.properties)
        properties == IF diskProps = <<>> /\ vals.exists
                         THEN extract_data_from_messages(vals.messages).properties
                         ELSE diskProps
    IN  IF ~d.listable THEN <<>> ELSE
        << [search_criteria |-> DefaultCriteria,
            properties |-> properties,
            location_analyses |-> ReadLocations(d.locations, 1, EmptyDict),
            decorated_images |-> ReadDecorations(d.decorations, 1, EmptyDict),
            generated_at |-> now,
            summary |-> <<"Found", Len(properties), now>>] >>

\* main.py:160-247; tool_response is <<>> (None) or <<content>>; now is datetime.now().
\* An exception inside the try of main.py:165 (here: a directory that cannot be
\* listed) ends in the except of main.py:243-247, which returns None.
build_report_from_filesystem(d, vals, tool_response, now) ==
    LET diskProps == ReadProperties(d.properties)
        diskLocs  == ReadLocations(d.locations, 1, EmptyDict)
        diskDecs  == ReadDecorations(d.decorations, 1, EmptyDict)
        useMsgs   == diskProps = <<>> /\ vals.exists
        fromMsgs  == extract_data_from_messages(vals.messages)
        properties == IF useMsgs THEN fromMsgs.properties ELSE diskProps
        locs == IF useMsgs /\ DOMAIN diskLocs = {} THEN fromMsgs.location_analyses ELSE diskLocs
        decs == IF useMsgs /\ DOMAIN diskDecs = {} THEN fromMsgs.decorated_images ELSE diskDecs
        crit == IF tool_response # <<>> THEN tool_response[1].search_criteria ELSE ""
        summ == IF tool_response # <<>> THEN tool_response[1].summary ELSE ""
    IN  IF ~d.listable THEN <<>> ELSE
        << [search_criteria |-> IF crit = "" THEN DefaultCriteria ELSE crit,
            properties |-> properties,
            location_analyses |-> locs,
            decorated_images |-> decs,
            generated_at |-> now,
            summary |-> IF summ = "" THEN FoundSummary(Len(properties)) ELSE <<summ>>] >>

RECURSIVE FindMarker(_, _)
\* main.py:62-72: newest message first; <<>> when no well-formed marker exists
FindMarker(messages, i) ==
    IF i = 0 THEN <<>>
    ELSE LET m == messages[i] IN
         IF m.name = "submit_final_report_tool" /\ m.json /\ m.status = "success"
            THEN <<m>>
            ELSE FindMarker(messages, i - 1)

\* all_complete without the emptiness test: all() of no todos is True
all_complete_vacuous(todos) ==
    \A i \in 1..Len(todos) : todos[i] = "completed"

\* main.py:76: todos and all(t.get("status") == "completed" for t in todos)
all_complete(todos) ==
    /\ todos # <<>>
    /\ \A i \in 1..Len(todos) : todos[i] = "completed"

\* main.py:162-163: the imports of build_report_from_filesystem run before its
\* try; TRUE when the call raises ImportError
build_raises(d) == ~d.bound

\* main.py:57-81 and 162: extract_final_report raises, which it does when it
\* calls build_report_from_filesystem and that call raises
extract_raises(d, vals) ==
    /\ build_raises(d)
    /\ \/ FindMarker(vals.messages, Len(vals.messages)) # <<>>
       \/ all_complete(vals.todos)

\* extract_final_report without the completed-todos fallback of main.py:74-79
extract_marked_report(d, vals, now) ==
    LET marker == FindMarker(vals.messages, Len(vals.messages)) IN
    IF marker # <<>> THEN build_report_from_filesystem(d, vals, marker, now) ELSE <<>>

\* main.py:57-81; <<>> is None
extract_final_report(d, vals, now) ==
    LET marker == FindMarker(vals.messages, Len(vals.messages)) IN
    IF marker # <<>> THEN build_report_from_filesystem(d, vals, marker, now)
    ELSE IF all_complete(vals.todos) THEN build_report_from_filesystem(d, vals, NoToolResponse, now)
    ELSE <<>>

(***************************************************************************)
(* Review interrupts and the resume decision (main.py:313-371).            *)
(***************************************************************************)
ReviewTool == "present_properties_for_review_tool"

\* an action request; args / arguments are <<>> (key missing) or <<property id list>>
Action(name, args, arguments) == [name |-> name, args |-> args, arguments |-> arguments]

\* the interrupt a review suspension leaves in state_snapshot.tasks
\*   "args", "arguments": a human-in-the-loop action request storing the list under that key
\*   "plain": the value of tools.py:399-403, which has no "action_requests"
Interrupt(id, shape, props) ==
    [id |-> id,
     action_requests |->
        CASE shape = "args"      -> << Action(ReviewTool, <<props>>, <<>>) >>
          [] shape = "arguments" -> << Action(ReviewTool, <<>>, <<props>>) >>
          [] OTHER               -> <<>>,
     properties |-> props]

Shapes == {"args", "arguments", "plain"}

\* main.py:335-336: action.get("arguments") or action.get("args") or {}, then .get("properties", [])
original_properties(action) ==
    IF action.arguments # <<>> THEN action.arguments[1]
    ELSE IF action.args # <<>> THEN action.args[1]
    ELSE <<>>

\* main.py:330-337: the first review action request of an interrupt, <<>> if none
ReviewAction(intr) ==
    LET hits == SelectSeq(intr.action_requests, LAMBDA a : a.name = ReviewTool)
    IN  IF hits = <<>> THEN <<>> ELSE <<hits[1]>>

RECURSIVE FindInterrupt(_, _, _)
\* main.py:325-337: the loops run to the end, so the last matching interrupt wins
FindInterrupt(pending, i, found) ==
    IF i > Len(pending) THEN found
    ELSE FindInterrupt(pending, i + 1,
            IF ReviewAction(pending[i]) # <<>>
               THEN << [interrupt_id |-> pending[i].id, original_action |-> ReviewAction(pending[i])[1]] >>
               ELSE found)

\* filtered_properties without the membership test of main.py:346
unfiltered_properties(props, approved_ids) ==
    SelectSeq(props, LAMBDA p : TRUE)

\* main.py:343-347
filtered_properties(props, approved_ids) ==
    SelectSeq(props, LAMBDA p : p \in approved_ids)

\* main.py:360-361: a shallow copy of the action whose "arguments" key is reassigned
edited_action(action, filtered) ==
    [action EXCEPT !.arguments = <<filtered>>]

\* main.py:353-369
resume_payload(interrupt_id, action, approved_ids) ==
    LET original == original_properties(action)
        filtered == filtered_properties(original, approved_ids)
    IN  IF Len(filtered) = Len(original)
           THEN [interrupt_id |-> interrupt_id, type |-> "approve", edited_action |-> <<>>]
           ELSE [interrupt_id |-> interrupt_id, type |-> "edit",
                 edited_action |-> << edited_action(action, filtered) >>]

NoPayload == [interrupt_id |-> 0, type |-> "none", edited_action |-> <<>>]

(***************************************************************************)
(* State.                                                                  *)
(*   disk      AGENT_DATA_DIR: properties/, locations/, decorations/       *)
(*   values    per thread: the checkpointed state values                   *)
(*   tasks     per thread: the pending interrupts of the state snapshot    *)
(*   busy      the handler that is running the pipeline, if any            *)
(*   response  what the last finished handler returned                     *)
(*   resumed   the last Command(resume=...) handed to the pipeline         *)
(*   clock     datetime.now()                                              *)
(*   nextId    next interrupt id                                           *)
(*   seen      per thread: interrupt ids returned to the caller (history)  *)
(***************************************************************************)
\* the ids of the interrupts pending in a snapshot
PendingIds(pending) == [i \in 1..Len(pending) |-> pending[i].id]

Idle == [op |-> "none", user |-> <<>>, thread |-> NoThread, prior |-> <<>>]

NoResponse ==
    [op |-> "none", user |-> <<>>, thread |-> NoThread, status |-> 0, shape |-> "none",
     report |-> <<>>, interrupt |-> <<>>, todos |-> <<>>, prior |-> <<>>, repeat |-> FALSE,
     detail |-> ""]

\* repeat: the handler compiled right after another compilation for the same thread
Response(op, user, thread, status, shape, report, interrupt, todos, prior) ==
    [op |-> op, user |-> user, thread |-> thread, status |-> status, shape |-> shape,
     report |-> report, interrupt |-> interrupt, todos |-> todos, prior |-> prior,
     repeat |-> FALSE, detail |-> ""]

\* main.py:296-298, 393-395, 429-431: HTTPException(status_code=500, detail=str(e))
ServerError(op, user, thread, prior, detail) ==
    [Response(op, user, thread, 500, "error", <<>>, <<>>, <<>>, prior) EXCEPT !.detail = detail]

\* str(e) of the ImportError of main.py:162 and of an exception of the agent run
ImportFailed == "cannot import name 'AGENT_DATA_DIR'"

RunFailed == "agent run failed"

NoResume == [thread |-> NoThread, intended |-> 0, approved |-> {}, payload |-> NoPayload,
             original_action |-> <<>>]

Init ==
    /\ disk = EmptyDisk
    /\ values = [t \in ThreadIds |-> NoValues]
    /\ tasks = [t \in ThreadIds |-> <<>>]
    /\ busy = Idle
    /\ response = NoResponse
    /\ resumed = NoResume
    /\ clock = 0
    /\ nextId = 1
    /\ seen = [t \in ThreadIds |-> {}]

(***************************************************************************)
(* Endpoint handlers.                                                      *)
(***************************************************************************)
\* main.py:261-277: POST /api/invoke up to the call of supervisor_agent.invoke.
\* Fresh input on a thread discards the unfinished tasks of its last checkpoint.
invoke_agent(user_id, timestamp, messages) ==
    LET thread_id == ThreadIdOf(user_id, timestamp) IN
    /\ busy.op = "none"
    /\ Len(values[thread_id].messages) + Len(messages) <= MaxMsgs
    /\ values' = [values EXCEPT ![thread_id] =
                    [@ EXCEPT !.exists = TRUE, !.messages = @ \o messages]]
    /\ tasks' = [tasks EXCEPT ![thread_id] = <<>>]
    /\ busy' = [op |-> "invoke", user |-> user_id, thread |-> thread_id,
                prior |-> PendingIds(tasks[thread_id])]
    /\ response' = NoResponse
    /\ resumed' = NoResume
    /\ UNCHANGED <<disk, clock, nextId, seen>>

\* main.py:301-372: POST /api/resume up to the call of supervisor_agent.invoke.
\* intended is the interrupt the caller is answering; the request has no field for it.
resume_agent(user_id, thread_id, approved_properties, intended) ==
    LET found == FindInterrupt(tasks[thread_id], 1, <<>>) IN
    /\ busy.op = "none"
    /\ IF ~validate_thread_ownership(thread_id, user_id)
          THEN /\ response' = Response("resume", user_id, thread_id, 403, "error", <<>>, <<>>, <<>>, <<>>)
               /\ UNCHANGED <<disk, values, tasks, busy, resumed, clock, nextId, seen>>
       ELSE IF tasks[thread_id] = <<>> \/ found = <<>>
          THEN /\ response' = Response("resume", user_id, thread_id, 400, "error", <<>>, <<>>, <<>>,
                                       PendingIds(tasks[thread_id]))
               /\ UNCHANGED <<disk, values, tasks, busy, resumed, clock, nextId, seen>>
       ELSE LET payload == resume_payload(found[1].interrupt_id, found[1].original_action,
                                          approved_properties)
            IN  /\ resumed' = [thread |-> thread_id, intended |-> intended,
                               approved |-> approved_properties, payload |-> payload,
                               original_action |-> <<found[1].original_action>>]
                /\ tasks' = [tasks EXCEPT ![thread_id] =
                                SelectSeq(@, LAMBDA i : i.id # found[1].interrupt_id)]
                /\ busy' = [op |-> "resume", user |-> user_id, thread |-> thread_id,
                            prior |-> PendingIds(tasks[thread_id])]
                /\ response' = NoResponse
                /\ UNCHANGED <<disk, values, clock, nextId, seen>>

\* get_agent_state that drops the pending interrupts of the thread it reads
get_agent_state_consuming(user_id, thread_id) ==
    /\ busy.op = "none"
    /\ validate_thread_ownership(thread_id, user_id)
    /\ values[thread_id].exists
    /\ clock < MaxClock
    /\ response' = Response("state", user_id, thread_id, 200, "state",
                            extract_final_report(disk, values[thread_id], clock), <<>>,
                            values[thread_id].todos, PendingIds(tasks[thread_id]))
    /\ clock' = clock + 1
    /\ tasks' = [tasks EXCEPT ![thread_id] = <<>>]
    /\ UNCHANGED <<disk, values, busy, resumed, nextId, seen>>

\* main.py:398-431: POST /api/state
get_agent_state(user_id, thread_id) ==
    /\ busy.op = "none"
    /\ IF ~validate_thread_ownership(thread_id, user_id)
          THEN /\ response' = Response("state", user_id, thread_id, 403, "error", <<>>, <<>>, <<>>, <<>>)
               /\ UNCHANGED clock
       ELSE IF ~values[thread_id].exists
          THEN /\ response' = Response("state", user_id, thread_id, 404, "error", <<>>, <<>>, <<>>, <<>>)
               /\ UNCHANGED clock
       ELSE /\ clock < MaxClock
            /\ response' =
                  IF extract_raises(disk, values[thread_id])
                     THEN ServerError("state", user_id, thread_id, <<>>, ImportFailed)
                     ELSE [Response("state", user_id, thread_id, 200, "state",
                                    extract_final_report(disk, values[thread_id], clock), <<>>,
                                    values[thread_id].todos, PendingIds(tasks[thread_id]))
                             EXCEPT !.repeat = (response.thread = thread_id /\ response.report # <<>>)]
            /\ clock' = clock + 1
    /\ UNCHANGED <<disk, values, tasks, busy, resumed, nextId, seen>>

(***************************************************************************)
(* The pipeline run inside invoke_agent / resume_agent: the supervisor     *)
(* and its workers, one tool call per step, until the run suspends at the  *)
(* review tool or ends, at which point the handler builds its response.    *)
(***************************************************************************)
Running(thread_id) == busy.op # "none" /\ busy.thread = thread_id

Statuses == {"pending", "in_progress", "completed"}

\* prompts.py:245-256: write_todos replaces the plan of the thread
write_todos(thread_id, todos) ==
    /\ Running(thread_id)
    /\ values[thread_id].todos # todos
    /\ values' = [values EXCEPT ![thread_id].todos = todos]
    /\ UNCHANGED <<disk, tasks, busy, response, resumed, clock, nextId, seen>>

\* prompts.py:36, 130, 186: a worker saves one artifact with write_file
write_file(thread_id, collection, stem, file) ==
    /\ Running(thread_id)
    /\ disk[collection][stem] # file
    /\ disk' = [disk EXCEPT ![collection][stem] = file]
    /\ UNCHANGED <<values, tasks, busy, response, resumed, clock, nextId, seen>>

\* agent.py:61: add_messages appends a worker's or tool's message to the transcript
add_messages(thread_id, msg) ==
    /\ Running(thread_id)
    /\ Len(values[thread_id].messages) < MaxMsgs
    /\ values' = [values EXCEPT ![thread_id].messages = Append(@, msg)]
    /\ UNCHANGED <<disk, tasks, busy, response, resumed, clock, nextId, seen>>

\* serialize_interrupt keeping only the items that are already dicts with a "value" key
serialize_dicts(interrupt_data) ==
    SelectSeq(interrupt_data, LAMBDA item : "value" \in DOMAIN item)

\* main.py:250-258
serialize_interrupt(interrupt_data) ==
    [i \in 1..Len(interrupt_data) |-> [value |-> interrupt_data[i]]]

\* the handler looking for a final report before it looks for an interrupt
present_properties_report_first(thread_id, shape, props) ==
    /\ Running(thread_id)
    /\ nextId <= MaxRounds
    /\ LET intr == Interrupt(nextId, shape, props)
           report == extract_final_report(disk, values[thread_id], clock)
       IN
       /\ tasks' = [tasks EXCEPT ![thread_id] = Append(@, intr)]
       /\ response' = IF report # <<>>
                         THEN Response(busy.op, busy.user, thread_id, 200, "structured_response",
                                       report, <<>>, <<>>, busy.prior)
                         ELSE Response(busy.op, busy.user, thread_id, 200, "interrupt", <<>>,
                                       serialize_interrupt(<<intr>>), <<>>, busy.prior)
       /\ seen' = [seen EXCEPT ![thread_id] = @ \cup {nextId}]
    /\ nextId' = nextId + 1
    /\ busy' = Idle
    /\ UNCHANGED <<disk, values, resumed, clock>>

\* tools.py:385-407 raises the interrupt; main.py:279-282 / 374-377 return it
present_properties_for_review_tool(thread_id, shape, props) ==
    /\ Running(thread_id)
    /\ nextId <= MaxRounds
    /\ LET intr == Interrupt(nextId, shape, props) IN
       /\ tasks' = [tasks EXCEPT ![thread_id] = Append(@, intr)]
       /\ response' = Response(busy.op, busy.user, thread_id, 200, "interrupt", <<>>,
                               serialize_interrupt(<<intr>>), <<>>, busy.prior)
       /\ seen' = [seen EXCEPT ![thread_id] = @ \cup {nextId}]
    /\ nextId' = nextId + 1
    /\ busy' = Idle
    /\ UNCHANGED <<disk, values, resumed, clock>>

\* main.py:284-294 / 379-389: the run ended without an interrupt
pipeline_end(thread_id) ==
    /\ Running(thread_id)
    /\ clock < MaxClock
    /\ LET report == extract_final_report(disk, values[thread_id], clock) IN
       response' = IF extract_raises(disk, values[thread_id])
                      THEN ServerError(busy.op, busy.user, thread_id, busy.prior, ImportFailed)
                   ELSE IF report # <<>>
                      THEN Response(busy.op, busy.user, thread_id, 200, "structured_response",
                                    report, <<>>, <<>>, busy.prior)
                      ELSE Response(busy.op, busy.user, thread_id, 200, "processing",
                                    <<>>, <<>>, values[thread_id].todos, busy.prior)
    /\ clock' = clock + 1
    /\ busy' = Idle
    /\ UNCHANGED <<disk, values, tasks, resumed, nextId, seen>>

\* the interrupt the last accepted resume answered
ResumedInterrupt ==
    LET action == resumed.original_action[1] IN
    Interrupt(resumed.payload.interrupt_id,
              IF action.args # <<>> THEN "args" ELSE "arguments",
              original_properties(action))

\* main.py:296-298 / 393-395: the run raised; the handler answers 500.  Whether
\* the checkpointer still holds the interrupt that a failed resumed run was
\* answering is not decided by the code of the repository: both outcomes.
pipeline_error(thread_id) ==
    /\ Running(thread_id)
    /\ response' = ServerError(busy.op, busy.user, thread_id, busy.prior, RunFailed)
    /\ busy' = Idle
    /\ \/ UNCHANGED tasks
       \/ /\ busy.op = "resume"
          /\ tasks' = [tasks EXCEPT ![thread_id] = <<ResumedInterrupt>> \o @]
    /\ UNCHANGED <<disk, values, resumed, clock, nextId, seen>>

(***************************************************************************)
(* Inputs.                                                                 *)
(***************************************************************************)
\* a property file as the search worker writes it: the id is the file's stem
PropertyFile(thread_id, stem) == OkFile(stem, NoId, "", thread_id)

\* the plan of prompts.py:249-255 as first written, and the same plan all completed
InitialPlan == <<"in_progress", "pending", "pending", "pending", "pending">>

CompletedPlan == <<"completed", "completed", "completed", "completed", "completed">>

\* the candidates the supervisor can propose: property files on disk, in file order
Proposals(d) ==
    { SelectSeq(Stems, LAMBDA s : s \in S) :
         S \in SUBSET { s \in PropIds : d.properties[s].st = "ok" } }

\* the approved_properties lists a caller sends: none, one, two, all
Approvals == { {}, {"p2"}, {"p1", "p3"}, PropIds }

\* the interrupts a caller of resume can be answering: those it was shown, 0 if none
Answerable(thread_id) == IF seen[thread_id] = {} THEN {0} ELSE seen[thread_id]

(***************************************************************************)
(* Review protocol: one caller, well-formed property files.                *)
(***************************************************************************)
Reviewer == <<"u">>

ReviewThread == ThreadIdOf(Reviewer, 1)

NextReview ==
    \/ invoke_agent(Reviewer, 1, <<>>)
    \/ \E A \in Approvals, i \in Answerable(ReviewThread) :
          resume_agent(Reviewer, ReviewThread, A, i)
    \/ \E todos \in {InitialPlan, CompletedPlan} : write_todos(ReviewThread, todos)
    \/ \E i \in 1..Len(Stems) :
          /\ \A j \in 1..(i - 1) : disk.properties[Stems[j]].st = "ok"
          /\ write_file(ReviewThread, "properties", Stems[i], PropertyFile(ReviewThread, Stems[i]))
    \/ \E sh \in Shapes, props \in Proposals(disk) :
          present_properties_for_review_tool(ReviewThread, sh, props)
    \/ pipeline_end(ReviewThread)
    \/ pipeline_error(ReviewThread)

Spec == Init /\ [][NextReview]_vars

(***************************************************************************)
(* Claims about the review protocol.                                       *)
(***************************************************************************)
\* ids of the entities of a report
EntityIds(report) == { report.properties[i].id : i \in 1..Len(report.properties) }

\* the candidates of the review the last resume answered, and those it approved
ProposedIds == 
    IF resumed.original_action = <<>> THEN {}
    ELSE LET P == original_properties(resumed.original_action[1])
         IN  { P[i] : i \in 1..Len(P) }

ApprovedIds == ProposedIds \cap resumed.approved

\* a run started by resume has ended with a report for the resumed thread
ReportAfterResume ==
    /\ response.op = "resume"
    /\ response.shape = "structured_response"
    /\ resumed.thread = response.thread

\* C1: when the resume approved a strict subset A of the proposed candidates, the
\* report compiled afterwards contains exactly the entities whose ids are in A.
C1_SubsetReport ==
    (ReportAfterResume /\ ApprovedIds # ProposedIds) =>
        /\ EntityIds(response.report[1]) = ApprovedIds
        /\ Len(response.report[1].properties) = Cardinality(ApprovedIds)

\* C2: the action of an edit decision carries the filtered list as its arguments and
\* no copy of the originally proposed list under "args" or "arguments".
C2_WholesaleEdit ==
    resumed.payload.type = "edit" =>
        LET edited   == resumed.payload.edited_action[1]
            original == original_properties(resumed.original_action[1])
        IN  /\ edited.arguments = << filtered_properties(original, resumed.approved) >>
            /\ edited.arguments # <<original>>
            /\ edited.args # <<original>>

\* C3: a resume that reaches the pipeline answers the checkpoint that is pending;
\* a resume for any other checkpoint is refused.
C3_StaleRefused ==
    resumed.thread # NoThread => resumed.intended = resumed.payload.interrupt_id

\* C4: the same resume request (same thread, same answer to the same suspension)
\* never reaches the pipeline a second time.
C4_ConsumedOnce ==
    [][ ~ ( /\ busy.op = "none"
            /\ busy'.op = "resume"
            /\ resumed.thread = resumed'.thread
            /\ resumed.approved = resumed'.approved
            /\ resumed.intended = resumed'.intended ) ]_vars

\* C5: at most one checkpoint is pending per thread, and a run started while a
\* checkpoint was pending (not by resuming it) never suspends again: the attempt
\* fails and the pending checkpoint stays.
C5_SinglePending ==
    /\ \A t \in ThreadIds : Len(tasks[t]) <= 1
    /\ (response.op = "invoke" /\ response.prior # <<>>) =>
          /\ response.status >= 400
          /\ PendingIds(tasks[response.thread]) = response.prior

(***************************************************************************)
(* Thread ownership: every caller against every thread.                    *)
(***************************************************************************)
NextAuth ==
    \/ \E u \in UserIds : invoke_agent(u, 1, <<>>)
    \/ \E u \in UserIds, t \in ThreadIds, A \in {{}, PropIds} :
          \E i \in Answerable(t) : resume_agent(u, t, A, i)
    \/ \E u \in UserIds, t \in ThreadIds : get_agent_state(u, t)
    \/ \E t \in ThreadIds : write_todos(t, CompletedPlan)
    \/ \E t \in ThreadIds, sh \in Shapes : present_properties_for_review_tool(t, sh, <<>>)
    \/ \E t \in ThreadIds : pipeline_end(t)

SpecAuth == Init /\ [][NextAuth]_vars

\* C7: a resume or state request by a user other than the one whose invoke created
\* the thread is answered 403 and never reaches the pipeline.
C7_Ownership ==
    [][ /\ ( /\ response' # response
             /\ response'.op \in {"resume", "state"}
             /\ values[response'.thread].exists
             /\ response'.user # CreatorOf(response'.thread) )
           => response'.status = 403
        /\ (busy.op = "none" /\ busy'.op = "resume")
           => busy'.user = CreatorOf(busy'.thread) ]_vars

(***************************************************************************)
(* Artifact store: two sessions, workers writing all three collections.    *)
(***************************************************************************)
\* prompts.py:186: /locations/property_XXX_location.json, keyed by property_id
LocationFile(thread_id, stem) == OkFile(NoId, stem, "", thread_id)

\* prompts.py:130-131: /decorations/{property_id}_decorated.json with its property_id
DecorationFile(thread_id, stem) == OkFile(NoId, stem, "disk", thread_id)

\* a decoration summary saved without the property_id key
AnonymousDecoration(thread_id) == OkFile(NoId, NoId, "disk", thread_id)

HasProperty(stem) == disk.properties[stem].st # "absent"

\* the files the workers of this specification write
StoreStems == PropIds

EnrichedStems == {"p1"}

NextStore ==
    \/ \E u \in UserIds : invoke_agent(u, 1, <<>>)
    \/ \E t \in ThreadIds : write_todos(t, CompletedPlan)
    \/ \E t \in ThreadIds, s \in StoreStems :
          \E f \in {PropertyFile(t, s), BadFile(t)} : write_file(t, "properties", s, f)
    \/ \E t \in ThreadIds, s \in EnrichedStems :
          HasProperty(s) /\ write_file(t, "locations", s, LocationFile(t, s))
    \/ \E t \in ThreadIds, s \in EnrichedStems :
          \E f \in {DecorationFile(t, s), AnonymousDecoration(t)} :
             HasProperty(s) /\ write_file(t, "decorations", s, f)
    \/ \E t \in ThreadIds : pipeline_end(t)
    \/ \E t \in ThreadIds : get_agent_state(CreatorOf(t), t)

SpecStore == Init /\ [][NextStore]_vars

(***************************************************************************)
(* Claims about the compiled report and the artifact store.                *)
(***************************************************************************)
\* a handler has returned a compiled report
Compiled == response.report # <<>>

\* the artifacts of a report: its entities and the values of its enrichment maps
ReportArtifacts(report) ==
    { report.properties[i] : i \in 1..Len(report.properties) }
       \cup { report.location_analyses[k] : k \in DOMAIN report.location_analyses }
       \cup { report.decorated_images[k] : k \in DOMAIN report.decorated_images }

\* the readable property artifacts a session has on disk
WrittenBy(thread_id) ==
    { s \in PropIds : disk.properties[s].st = "ok" /\ disk.properties[s].by = thread_id }

\* C6: every artifact of a report returned for a thread was written by that thread.
C6_SessionIsolation ==
    Compiled => \A a \in ReportArtifacts(response.report[1]) : a.by = response.thread

\* C8: the report of a session with N property artifacts has exactly N entities
\* with N pairwise-distinct ids.
C8_ExactlyN ==
    Compiled =>
        LET N == Cardinality(WrittenBy(response.thread)) IN
        /\ Len(response.report[1].properties) = N
        /\ Cardinality(EntityIds(response.report[1])) = N

\* C9: every key of location_analyses and of decorated_images is the id of an
\* entity of the report.
C9_EnrichmentKeys ==
    Compiled =>
        (DOMAIN response.report[1].location_analyses
            \cup DOMAIN response.report[1].decorated_images)
          \subseteq EntityIds(response.report[1])

(***************************************************************************)
(* Report compilation: one session, artifacts, markers and the transcript. *)
(***************************************************************************)
\* prompts.py:285-297: the summary and the criteria the supervisor submits
SubmittedReport == [summary |-> "two flats in Lekki", search_criteria |-> "Lekki"]

\* content of a submit_final_report_tool message: the dict of tools.py:465-470,
\* a failure status, and content that is not JSON
SubmitMsgs ==
    { submit_final_report_tool(SubmittedReport),
      Msg("submit_final_report_tool", TRUE, "error", "", "", <<>>, NoId, FALSE),
      Msg("submit_final_report_tool", FALSE, "", "", "", <<>>, NoId, FALSE) }

\* prompts.py:59-81: the search worker's final response with its properties
SearchMsg(thread_id) ==
    Msg("task", TRUE, "success", "", "", <<PropertyFile(thread_id, "p1")>>, NoId, FALSE)

\* prompts.py:196-213: the location worker's final response
LocationMsg == Msg("task", TRUE, "", "", "", <<>>, "p1", TRUE)

CompileStems == {"p1", "p2"}

NextCompile ==
    \/ \E m \in {<<>>, <<UserMsg>>} : invoke_agent(Reviewer, 1, m)
    \/ \E todos \in {InitialPlan, CompletedPlan} : write_todos(ReviewThread, todos)
    \/ \E s \in CompileStems :
          \E f \in {PropertyFile(ReviewThread, s), BadFile(ReviewThread)} :
             write_file(ReviewThread, "properties", s, f)
    \/ \E s \in EnrichedStems :
          HasProperty(s) /\ write_file(ReviewThread, "locations", s, LocationFile(ReviewThread, s))
    \/ \E m \in SubmitMsgs \cup {SearchMsg(ReviewThread), LocationMsg} :
          add_messages(ReviewThread, m)
    \/ pipeline_end(ReviewThread)
    \/ pipeline_error(ReviewThread)
    \/ get_agent_state(Reviewer, ReviewThread)

SpecCompile == Init /\ [][NextCompile]_vars

\* a report without its generation timestamp
Timeless(report) == [i \in 1..Len(report) |-> [report[i] EXCEPT !.generated_at = 0]]

\* the responses for which extract_final_report ran
CompileShapes == {"structured_response", "processing", "state"}

MarkerOf(thread_id) ==
    FindMarker(values[thread_id].messages, Len(values[thread_id].messages))

\* C11: when a well-formed completion marker exists, the report's summary and
\* search criteria are the ones submitted with that marker.
C11_MarkerAuthoritative ==
    (Compiled /\ MarkerOf(response.thread) # <<>>) =>
        LET submitted == MarkerOf(response.thread)[1].report[1] IN
        /\ response.report[1].summary = <<submitted.summary>>
        /\ response.report[1].search_criteria = submitted.search_criteria

\* a compilation ran for a thread without a well-formed marker whose plan is all completed
UnmarkedComplete ==
    /\ response.shape \in CompileShapes
    /\ MarkerOf(response.thread) = <<>>
    /\ values[response.thread].todos # <<>>
    /\ \A i \in 1..Len(values[response.thread].todos) :
          values[response.thread].todos[i] = "completed"

\* the entities of a report are files of properties/
FromStore(report) ==
    \A i \in 1..Len(report.properties) :
       \E s \in PropIds : disk.properties[s] = report.properties[i]

\* the entities of a report are properties listed in messages of the transcript
FromTranscript(report, messages) ==
    \A i \in 1..Len(report.properties) :
       \E j \in 1..Len(messages), k \in 1..Len(Stems) :
          /\ k <= Len(messages[j].properties)
          /\ messages[j].properties[k] = report.properties[i]

\* some file of properties/ is readable
StoreReadable == \E s \in PropIds : disk.properties[s].st = "ok"

FallbackPath ==
    \/ MarkerOf(response.thread) = <<>>
    \/ ~StoreReadable

\* C13: a report carries a degraded marker set to true exactly when it was
\* produced through a fallback path.
C13_DegradedFlag ==
    Compiled =>
        LET report == response.report[1]
            flagged == "degraded" \in DOMAIN report /\ report.degraded = TRUE
        IN  flagged <=> FallbackPath

\* some entity or location analysis of a report is no file of the store: it was
\* taken from the transcript
TranscriptOrigin(report) ==
    \/ \E i \in 1..Len(report.properties) :
          \A s \in PropIds : disk.properties[s] # report.properties[i]
    \/ \E k \in DOMAIN report.location_analyses :
          \A s \in PropIds : disk.locations[s] # report.location_analyses[k]

\* no file, readable or not, in any collection of the store
StoreEmpty ==
    \A c \in {"properties", "locations", "decorations"}, s \in PropIds :
       disk[c][s].st = "absent"

\* C14: a report holds data taken from the transcript only when there is no
\* well-formed marker and the store holds no artifact.
C14_LastFallback ==
    (Compiled /\ TranscriptOrigin(response.report[1])) =>
        /\ MarkerOf(response.thread) = <<>>
        /\ StoreEmpty

(***************************************************************************)
(* The plan: write_todos replaces the todos of the thread with the list    *)
(* the supervisor passes; SupervisorState.todos has no reducer and no      *)
(* validator (agent.py:59-65), the order is asked for in the prompt only.  *)
(***************************************************************************)
\* every list of statuses for the five stages of the plan
Plans == [1..Len(InitialPlan) -> Statuses]

NextPlan ==
    \/ invoke_agent(Reviewer, 1, <<>>)
    \/ \E todos \in Plans : write_todos(ReviewThread, todos)
    \/ pipeline_end(ReviewThread)
    \/ get_agent_state(Reviewer, ReviewThread)

SpecPlan == Init /\ [][NextPlan]_vars

\* C15: in every plan state no stage is in_progress or completed while an
\* earlier stage is still pending; a request that would break the order leaves
\* the plan as it was.
C15_DeclaredOrder ==
    \A t \in ThreadIds :
       LET todos == values[t].todos IN
       \A i, j \in 1..Len(todos) :
          (i < j /\ todos[i] = "pending") => todos[j] = "pending"

\* C16: at most one stage of a thread's plan is in_progress.
C16_SingleInProgress ==
    \A t \in ThreadIds :
       LET todos == values[t].todos IN
       Cardinality({ i \in 1..Len(todos) : todos[i] = "in_progress" }) <= 1

(***************************************************************************)
(* Claims about suspension.                                                *)
(***************************************************************************)
\* the ids of the interrupts a response returned to the caller
ReturnedIds(resp) == { resp.interrupt[i].value.id : i \in 1..Len(resp.interrupt) }

\* C17: a checkpoint is pending exactly when the session is suspended.  A run in
\* progress has no pending checkpoint; a handler that returns an interrupt returns
\* the pending one, and one that returns a report or "processing" leaves none
\* pending; after a successful resume the checkpoint it consumed is not pending.
C17_PendingIffSuspended ==
    /\ \A t \in ThreadIds : Running(t) => tasks[t] = <<>>
    /\ response.shape = "interrupt" =>
          /\ tasks[response.thread] # <<>>
          /\ ReturnedIds(response) = { tasks[response.thread][i].id :
                                          i \in 1..Len(tasks[response.thread]) }
    /\ response.shape \in {"structured_response", "processing"} =>
          tasks[response.thread] = <<>>
    /\ ( /\ response.op = "resume"
          /\ response.status = 200
          /\ resumed.thread = response.thread ) =>
          \A i \in 1..Len(tasks[resumed.thread]) :
             tasks[resumed.thread][i].id # resumed.payload.interrupt_id

\* a resume was accepted and its run suspended again, on another checkpoint
C17_Witness ==
    /\ response.op = "resume"
    /\ response.shape = "interrupt"
    /\ resumed.thread = response.thread
    /\ tasks[response.thread] # <<>>

(***************************************************************************)
(* Progress of one session.  A handler starts only while a compilation is  *)
(* still possible, so every run can end.  Fairness: a run that has started *)
(* ends (supervisor_agent.invoke returns or raises), and the caller keeps  *)
(* answering the review it was shown.  Nothing else is scheduled by the    *)
(* code: no task outlives the handler that started it.                     *)
(***************************************************************************)
\* the run of the current handler ends: suspended, finished or failed
RunEnds ==
    \/ \E sh \in Shapes, props \in Proposals(disk) :
          present_properties_for_review_tool(ReviewThread, sh, props)
    \/ pipeline_end(ReviewThread)
    \/ pipeline_error(ReviewThread)

\* the caller answers the review it was shown
Answers ==
    /\ clock < MaxClock
    /\ \E A \in {{}, PropIds}, i \in Answerable(ReviewThread) :
          resume_agent(Reviewer, ReviewThread, A, i)

NextLive ==
    \/ (clock < MaxClock /\ invoke_agent(Reviewer, 1, <<>>))
    \/ Answers
    \/ \E todos \in {InitialPlan, CompletedPlan} : write_todos(ReviewThread, todos)
    \/ write_file(ReviewThread, "properties", "p1", PropertyFile(ReviewThread, "p1"))
    \/ add_messages(ReviewThread, submit_final_report_tool(SubmittedReport))
    \/ RunEnds

SpecLive == Init /\ [][NextLive]_vars /\ WF_vars(RunEnds) /\ WF_vars(Answers)

\* C18: every started session eventually returns a report.
C18_EventuallyReport ==
    values[ReviewThread].exists ~> (Compiled /\ response.thread = ReviewThread)

(***************************************************************************)
(* Search dispatches.  The supervisor delegates to the property_search     *)
(* sub-agent with the task tool (agent.py:72-79); each dispatch ends with  *)
(* the worker's final response appended to the transcript.                 *)
(***************************************************************************)
\* prompts.py:313-318: "Stop after 3 search attempts"
AttemptCeiling == 3

\* prompts.py:59-81: the search worker's final response when it found nothing
EmptySearchMsg == Msg("task", TRUE, "success", "", "", <<>>, NoId, FALSE)

\* one dispatch of the search worker that yields no artifact
task_property_search(thread_id) ==
    /\ Running(thread_id)
    /\ Len(values[thread_id].messages) < MaxDispatch
    /\ values' = [values EXCEPT ![thread_id].messages = Append(@, EmptySearchMsg)]
    /\ UNCHANGED <<disk, tasks, busy, response, resumed, clock, nextId, seen>>

NextSearch ==
    \/ invoke_agent(Reviewer, 1, <<>>)
    \/ task_property_search(ReviewThread)
    \/ \E todos \in {InitialPlan, CompletedPlan} : write_todos(ReviewThread, todos)
    \/ pipeline_end(ReviewThread)
    \/ pipeline_error(ReviewThread)
    \/ get_agent_state(Reviewer, ReviewThread)

SpecSearch == Init /\ [][NextSearch]_vars

\* the search dispatches recorded in a thread's transcript
SearchDispatches(thread_id) ==
    Len(SelectSeq(values[thread_id].messages, LAMBDA m : m = EmptySearchMsg))

\* C19: the search worker is dispatched at most 3 times per session.
C19_AttemptCeiling ==
    \A t \in ThreadIds : SearchDispatches(t) <= AttemptCeiling

(***************************************************************************)
(* Claims about the decision a resume conveys.                             *)
(***************************************************************************)
\* C20: a resume that approves none of the proposed candidates hands the pipeline
\* a reject decision, not an approval or an edited action to execute.
C20_RejectDecision ==
    (resumed.thread # NoThread /\ ProposedIds # {} /\ ApprovedIds = {}) =>
        /\ resumed.payload.type = "reject"
        /\ resumed.payload.edited_action = <<>>

\* the position of a candidate in a list of proposals, 0 when it is not in it
PositionIn(props, p) ==
    IF \E i \in 1..Len(props) : props[i] = p
       THEN CHOOSE i \in 1..Len(props) : props[i] = p
       ELSE 0

C22_CompiledOnce ==
    Compiled =>
        /\ all_complete(values[response.thread].todos)
        /\ ~response.repeat

Place(latitude, longitude) == [latitude |-> latitude, longitude |-> longitude]

Places ==
    { Place(<<6>>, <<>>), Place(<<>>, <<3>>), Place(<<6>>, <<3>>), Place(<<7>>, <<4>>) }

\* the "places" key of the body: missing, or a list of up to two places
PlaceLists ==
    { <<>> } \cup { <<a>> : a \in Places } \cup { <<a, b>> : a \in Places, b \in Places }

Body(present, places) == [present |-> present, places |-> places]

NoBody == Body(FALSE, <<>>)

\* what requests.post does
Transport == [kind |-> "transport", status |-> 0, body |-> NoBody]

Answer(status, body) == [kind |-> "answer", status |-> status, body |-> body]

HttpOutcomes ==
    { Transport, Answer(404, NoBody), Answer(403, NoBody), Answer(500, NoBody), Answer(200, NoBody) }
       \cup { Answer(200, Body(TRUE, l)) : l \in PlaceLists }

Return(value) == [outcome |-> "return", value |-> <<value>>, error |-> ""]

Raise(error) == [outcome |-> "raise", value |-> <<>>, error |-> error]

\* response.raise_for_status(): HTTPError for 4xx and 5xx
raise_for_status(http) == http.status >= 400 /\ http.status < 600

AddressNotFound == [success |-> FALSE, error |-> "Address not found"]

\* google_places_geocode_tool that treats 404 like every other HTTP error
geocode_raising_404(api_key, http) ==
    IF ~api_key THEN Raise("ValueError")
    ELSE IF http.kind = "transport" THEN Raise("Exception")
    ELSE IF raise_for_status(http) THEN Raise("Exception")
    ELSE IF ~http.body.present \/ Len(http.body.places) = 0 THEN Return(AddressNotFound)
    ELSE Return([success |-> TRUE,
                 latitude |-> http.body.places[1].latitude,
                 longitude |-> http.body.places[1].longitude])

\* tools.py:98-151 (formatted_address, name and place_id of the result are left out)
google_places_geocode_tool(api_key, http) ==
    IF ~api_key THEN Raise("ValueError")
    ELSE IF http.kind = "transport" THEN Raise("Exception")
    ELSE IF raise_for_status(http)
       THEN IF http.status = 404 THEN Return(AddressNotFound) ELSE Raise("Exception")
    ELSE IF ~http.body.present \/ Len(http.body.places) = 0 THEN Return(AddressNotFound)
    ELSE Return([success |-> TRUE,
                 latitude |-> http.body.places[1].latitude,
                 longitude |-> http.body.places[1].longitude])

MaxResultCount == 20

MaxRadius == 50000

Min(a, b) == IF a <= b THEN a ELSE b

\* the body of the places:searchNearby request, tools.py:184-196
nearby_body(category, radius_meters, limit) ==
    [includedTypes |-> <<category>>,
     maxResultCount |-> Min(limit, MaxResultCount),
     radius |-> Min(radius_meters, MaxRadius)]

Located(place) == place.latitude # <<>> /\ place.longitude # <<>>

\* tools.py:202-226 (the descriptive fields and the distance of a POI are left out)
pois_of(places, category) ==
    LET kept == SelectSeq(places, Located)
    IN  [i \in 1..Len(kept) |->
            [category |-> category, latitude |-> kept[i].latitude, longitude |-> kept[i].longitude]]

Call(request, result) == [request |-> request, result |-> result]

\* google_places_nearby_tool that passes the caller's limit through
nearby_uncapped(api_key, category, radius_meters, limit, http) ==
    IF ~api_key THEN Call(<<>>, Raise("ValueError"))
    ELSE LET body == [nearby_body(category, radius_meters, limit) EXCEPT !.maxResultCount = limit]
         IN  IF http.kind = "transport" THEN Call(<<body>>, Raise("Exception"))
             ELSE IF raise_for_status(http)
                THEN IF http.status = 404 THEN Call(<<body>>, Return(<<>>))
                     ELSE Call(<<body>>, Raise("Exception"))
             ELSE Call(<<body>>, Return(pois_of(http.body.places, category)))

\* tools.py:155-234
google_places_nearby_tool(api_key, category, radius_meters, limit, http) ==
    IF ~api_key THEN Call(<<>>, Raise("ValueError"))
    ELSE LET body == nearby_body(category, radius_meters, limit)
         IN  IF http.kind = "transport" THEN Call(<<body>>, Raise("Exception"))
             ELSE IF raise_for_status(http)
                THEN IF http.status = 404 THEN Call(<<body>>, Return(<<>>))
                     ELSE Call(<<body>>, Raise("Exception"))
             ELSE Call(<<body>>, Return(pois_of(http.body.places, category)))

(***************************************************************************)
(* Tool calls: the location analysis sub-agent calls a tool with arguments *)
(* of its choice, in an environment and against an API of any behaviour.   *)
(* The call and its outcome are recorded in response.                      *)
(***************************************************************************)
Categories == { "school", "hospital" }

Limits == { 10, 20, 21, 100 }

Radii == { 5000, 50000, 50001 }

Geocode ==
    /\ \E api_key \in BOOLEAN, http \in HttpOutcomes :
          response' = [op |-> "geocode", api_key |-> api_key, http |-> http,
                       result |-> google_places_geocode_tool(api_key, http)]
    /\ UNCHANGED <<disk, values, tasks, busy, resumed, clock, nextId, seen>>

Nearby ==
    /\ \E api_key \in BOOLEAN, category \in Categories, radius_meters \in Radii,
          limit \in Limits, http \in HttpOutcomes :
          LET call == google_places_nearby_tool(api_key, category, radius_meters, limit, http)
          IN  response' = [op |-> "nearby", api_key |-> api_key, http |-> http,
                           category |-> category, radius_meters |-> radius_meters,
                           limit |-> limit, request |-> call.request, result |-> call.result]
    /\ UNCHANGED <<disk, values, tasks, busy, resumed, clock, nextId, seen>>

NextTools == Geocode \/ Nearby

SpecTools == Init /\ [][NextTools]_vars

NoPlacesAnswered(http) ==
    http.kind = "answer" /\ http.status = 200
       /\ (~http.body.present \/ Len(http.body.places) = 0)

\* C25: geocoding reports an unknown address (no places in the answer, or HTTP
\* 404) as the value {success: False, error: "Address not found"}; an answer
\* with places gives success True with the first place's latitude and
\* longitude; every other HTTP or transport failure is raised.
C25_GeocodeNotFound ==
    (response.op = "geocode" /\ response.api_key) =>
        LET http == response.http
            r == response.result
        IN  /\ (NoPlacesAnswered(http) \/ (http.kind = "answer" /\ http.status = 404))
                  => r = Return(AddressNotFound)
            /\ (http.kind = "answer" /\ http.status = 200 /\ ~NoPlacesAnswered(http))
                  => /\ r.outcome = "return"
                     /\ r.value[1].success
                     /\ r.value[1].latitude = http.body.places[1].latitude
                     /\ r.value[1].longitude = http.body.places[1].longitude
            /\ (http.kind = "transport"
                   \/ (http.kind = "answer" /\ http.status \notin {200, 404}))
                  => r.outcome = "raise"

C25_Witness ==
    /\ response.op = "geocode"
    /\ response.api_key
    /\ response.http.kind = "answer"
    /\ response.http.status = 404
    /\ response.result = Return(AddressNotFound)

\* C26: whenever the nearby search returns it returns a list: the empty list
\* on HTTP 404, otherwise one POI per place that has both a latitude and a
\* longitude, each with the requested category; and the request sent asks for
\* at most 20 results and a radius of at most 50000 metres.
C26_NearbyList ==
    response.op = "nearby" =>
        LET http == response.http
            r == response.result
        IN  /\ response.request # <<>> =>
                  /\ response.request[1].maxResultCount <= 20
                  /\ response.request[1].radius <= 50000
            /\ (r.outcome = "raise" /\ response.api_key) => response.request # <<>>
            /\ r.outcome = "return" =>
                  LET pois == r.value[1]
                  IN  /\ response.request # <<>>
                      /\ http.status = 404 => pois = <<>>
                      /\ \A i \in 1..Len(pois) :
                            /\ pois[i].category = response.category
                            /\ pois[i].latitude # <<>>
                            /\ pois[i].longitude # <<>>
                      /\ http.status = 200 =>
                            Len(pois) = Cardinality({ i \in 1..Len(http.body.places) :
                                                        Located(http.body.places[i]) })

C26_Witness ==
    /\ response.op = "nearby"
    /\ response.limit > 20
    /\ response.radius_meters > 50000
    /\ response.result.outcome = "return"
    /\ Len(response.http.body.places) = 2
    /\ Len(response.result.value[1]) = 1

(***************************************************************************)
(* Claims about the selection of the completion marker.                    *)
(***************************************************************************)
\* message i of the transcript is a well-formed completion marker
WellFormedAt(messages, i) ==
    /\ messages[i].name = "submit_final_report_tool"
    /\ messages[i].json
    /\ messages[i].status = "success"

\* C28: a compilation returns a report exactly when some message of the
\* transcript, however old and whatever follows it, is a well-formed
\* completion marker, or the todo list is non-empty with every todo completed;
\* otherwise it returns None, and invoke_agent answers "Agent processing".
C28_MarkerScan ==
    response.shape \in CompileShapes =>
        LET messages == values[response.thread].messages
            todos == values[response.thread].todos
            marked == \E i \in 1..Len(messages) : WellFormedAt(messages, i)
            done == Len(todos) > 0 /\ \A i \in 1..Len(todos) : todos[i] = "completed"
        IN  /\ Compiled <=> (marked \/ done)
            /\ response.op = "invoke" =>
                  response.shape = (IF marked \/ done THEN "structured_response" ELSE "processing")

\* a report was compiled from a marker that is followed by a malformed
\* submission, the plan not being complete
C28_Witness ==
    /\ response.shape \in CompileShapes
    /\ Compiled
    /\ LET messages == values[response.thread].messages IN
       /\ Len(messages) = 2
       /\ WellFormedAt(messages, 1)
       /\ messages[2].name = "submit_final_report_tool"
       /\ ~WellFormedAt(messages, 2)
    /\ ~all_complete(values[response.thread].todos)

(***************************************************************************)
(* Claims about the shape of a handler's response.                         *)
(***************************************************************************)
\* C29: a 200 response of invoke_agent or resume_agent has one of three shapes:
\* the interrupt whenever the run suspended at one, whether or not a report
\* could be compiled; otherwise the report if extract_final_report yields one;
\* otherwise the todos with "Agent processing".  No response carries both an
\* interrupt and a report.
C29_ShapePrecedence ==
    [][ ( /\ response' # response
          /\ response'.op \in {"invoke", "resume"}
          /\ response'.status = 200 )
        => LET t == response'.thread
               suspended == Len(tasks'[t]) > Len(tasks[t])
               report == extract_final_report(disk, values[t], clock)
           IN  /\ response'.shape \in {"interrupt", "structured_response", "processing"}
               /\ response'.shape = "interrupt" <=> suspended
               /\ response'.shape = "structured_response" <=> (~suspended /\ report # <<>>)
               /\ response'.shape = "interrupt" =>
                     /\ response'.interrupt # <<>>
                     /\ response'.report = <<>>
                     /\ response'.todos = <<>>
               /\ response'.shape = "structured_response" =>
                     /\ response'.report = report
                     /\ response'.interrupt = <<>>
               /\ response'.shape = "processing" =>
                     /\ response'.report = <<>>
                     /\ response'.interrupt = <<>>
                     /\ response'.todos = values[t].todos
               /\ ~(response'.interrupt # <<>> /\ response'.report # <<>>) ]_vars

\* an interrupt was returned although a report could be compiled
C29_Witness ==
    /\ response.op \in {"invoke", "resume"}
    /\ response.shape = "interrupt"
    /\ response.interrupt # <<>>
    /\ extract_final_report(disk, values[response.thread], clock) # <<>>

(***************************************************************************)
(* Report compilation in any environment: AGENT_DATA_DIR defined by the    *)
(* agent module or not (agent.py of this tree does not define it), its     *)
(* directories listable or not.                                            *)
(***************************************************************************)
InitAbsorb ==
    /\ \E bound \in BOOLEAN, listable \in BOOLEAN :
          disk = [EmptyDisk EXCEPT !.bound = bound, !.listable = listable]
    /\ values = [t \in ThreadIds |-> NoValues]
    /\ tasks = [t \in ThreadIds |-> <<>>]
    /\ busy = Idle
    /\ response = NoResponse
    /\ resumed = NoResume
    /\ clock = 0
    /\ nextId = 1
    /\ seen = [t \in ThreadIds |-> {}]

SpecAbsorb == InitAbsorb /\ [][NextCompile]_vars

\* C30: no failure of the report compilation reaches the caller: a 500 answer
\* comes only from a failed agent run; when the compilation fails the handler
\* answers 200 without a report; and a report that is compiled has every
\* readable property artifact, the malformed ones being skipped.
C30_FailuresAbsorbed ==
    /\ response.status = 500 => response.detail = RunFailed
    /\ (response.shape \in CompileShapes /\ ~disk.listable) =>
          /\ response.status = 200
          /\ ~Compiled
    /\ (Compiled /\ StoreReadable) =>
          \A s \in PropIds :
             disk.properties[s].st = "ok" <=>
                \E i \in 1..Len(response.report[1].properties) :
                   response.report[1].properties[i] = disk.properties[s]

====
